---- MODULE Spec2Model ----
(***************************************************************************)
(* Model of src/src/lib.rs: the C interface of a multipart/form-data       *)
(* parser.  Three exported functions share one lazily created, mutex       *)
(* guarded RuntimeManager:                                                 *)
(*   parse_multipart_form_data   builds a FormData on the heap and hands   *)
(*                               the raw pointer to the caller,            *)
(*   free_multipart_form_data    walks such a record and releases it,      *)
(*   shutdown_runtime            takes the Tokio runtime out of the        *)
(*                               manager.                                  *)
(* The multer grammar (next_field / chunk / text) is an external           *)
(* capability: a body is its first line (raw bytes, which the code scans   *)
(* itself) plus the stream of items multer yields for it.  Creation of the *)
(* Tokio runtime is assumed to succeed.                                    *)
(***************************************************************************)
EXTENDS Integers, Sequences, FiniteSets, TLC

VARIABLES
    pc,        \* per caller thread: where it is inside an exported function
    arg,       \* per thread: the body pointer passed to parse
    loc,       \* per thread: locals of rt_parse_multipart_form_data
    lazy,      \* RUNTIME_MANAGER has been forced (Lazy initializer ran)
    runtime,   \* RuntimeManager.runtime is Some
    created,   \* number of Tokio runtimes built so far
    holder,    \* thread owning the MutexGuard, or NoThread
    poisoned,  \* the Mutex is poisoned
    process,   \* "alive", or "aborted" after a panic reached the C boundary
    heap,      \* live allocations handed over with into_raw / forget
    handles,   \* FormData pointers returned to callers and not yet freed
    allocs,    \* per outstanding handle: the allocations made building it
    last       \* the latest completed call (released: the number of
               \* deallocations it made), until the next call begins

vars == <<pc, arg, loc, lazy, runtime, created, holder, poisoned, process,
          heap, handles, allocs, last>>

----------------------------------------------------------------------------
(* Bounds of the model                                                     *)

MaxLine == 4       \* longest first line of a body, in bytes
MaxParts == 2      \* most items the multipart stream of a body yields
MaxChunks == 2     \* most chunks the file parts of a body deliver

Threads == {1, 2}
NoThread == 0

----------------------------------------------------------------------------
(* Bytes, strings, Option and Result                                       *)

NULL == 0          \* std::ptr::null / null_mut
NUL == 0           \* terminator of a C string
CR == 13           \* b'\r'

\* Bytes a body's first line is built from: '-', '\r' and 0xFF (a byte that
\* no UTF-8 text contains).
LineBytes == {45, CR, 255}

None == [some |-> FALSE, v |-> <<>>]
Some(x) == [some |-> TRUE, v |-> x]

Ok(x) == [ok |-> TRUE, v |-> x]
Err == [ok |-> FALSE, v |-> <<>>]

Max(a, b) == IF a >= b THEN a ELSE b

SeqsUpTo(S, n) == UNION {[1..k -> S] : k \in 0..n}

RECURSIVE Concat(_)
Concat(ss) == IF ss = <<>> THEN <<>> ELSE Head(ss) \o Concat(Tail(ss))

\* "application/octet-stream"
default_content_type ==
    <<97, 112, 112, 108, 105, 99, 97, 116, 105, 111, 110, 47,
      111, 99, 116, 101, 116, 45, 115, 116, 114, 101, 97, 109>>

\* "text/plain"
text_plain == <<116, 101, 120, 116, 47, 112, 108, 97, 105, 110>>

\* "Text/Plain"
Text_Plain == <<84, 101, 120, 116, 47, 80, 108, 97, 105, 110>>

\* str::to_ascii_lowercase
to_ascii_lowercase(s) ==
    [i \in 1..Len(s) |-> IF s[i] >= 65 /\ s[i] <= 90 THEN s[i] + 32 ELSE s[i]]

\* str::parse::<Mime>(): a media type is "type/subtype" with both names
\* non-empty; anything else is an error.  The Mime keeps the text with its
\* names in lower case.
Mime_from_str(s) ==
    LET slashes == {i \in 1..Len(s) : s[i] = 47}
    IN  IF Cardinality(slashes) = 1 /\ 1 \notin slashes /\ Len(s) \notin slashes
        THEN Ok(to_ascii_lowercase(s))
        ELSE Err

\* Mime::to_string(): the text the Mime keeps.
Mime_to_string(mime) == mime

\* Field::content_type(): the part's Content-Type header parsed as a Mime;
\* None when the part has no such header or it does not parse.
Field_content_type(part) ==
    IF part.content_type.some /\ Mime_from_str(part.content_type.v).ok
    THEN Some(Mime_from_str(part.content_type.v).v)
    ELSE None

----------------------------------------------------------------------------
(* Inputs: bodies                                                          *)
(*                                                                         *)
(* A body is NULL or a C string.  bytes is the body through its first      *)
(* '\r' (all of it when it has none); stream is what the multer capability *)
(* has yielded for the body so far: part items and read errors, in wire    *)
(* order.  The items are drawn when next_field() asks for them, so a call  *)
(* starts with an empty stream and ends with the whole of it.              *)

Strings == {<<118>>, <<119>>}            \* "v", "w"
\* Chunks of file content; content is binary and may hold a zero byte.
ChunkBytes == {<<1>>, <<0, 3>>}

\* What field.chunk() delivers for one part: chunks, then end of stream or
\* a read error.
ChunkSeqs ==
    {c \in SeqsUpTo({Ok(b) : b \in ChunkBytes} \cup {Err}, MaxChunks) :
        \A i \in 1..(Len(c) - 1) : c[i].ok}

ErrItem ==
    [kind |-> "err", name |-> None, file_name |-> None, content_type |-> None,
     chunks |-> <<>>, text |-> Err]

NamelessPart ==
    [kind |-> "part", name |-> None, file_name |-> None, content_type |-> None,
     chunks |-> <<>>, text |-> Err]

FieldParts ==
    {[kind |-> "part", name |-> Some(<<97>>), file_name |-> None,
      content_type |-> None, chunks |-> <<>>, text |-> t] :
        t \in {Ok(s) : s \in Strings} \cup {Err}}

\* Content-Type headers of file parts: "text/plain", "Text/Plain" and "x".
DeclaredTypes == {text_plain, Text_Plain, <<120>>}

FileParts ==
    {[kind |-> "part", name |-> Some(<<102>>), file_name |-> Some(<<120>>),
      content_type |-> ct, chunks |-> c, text |-> Err] :
        ct \in {None} \cup {Some(d) : d \in DeclaredTypes}, c \in ChunkSeqs}

Items == {ErrItem, NamelessPart} \cup FieldParts \cup FileParts

\* Fatal without the unwrap of field.name().
Fatal_accepts_missing_name(it) ==
    \/ it.kind = "err"
    \/ it.file_name.some /\ \E i \in 1..Len(it.chunks) : ~it.chunks[i].ok

\* The item makes rt_parse_multipart_form_data panic: the unwrap of
\* next_field(), of field.name() or of field.chunk() fails.
Fatal(it) ==
    \/ it.kind = "err"
    \/ ~it.name.some
    \/ it.file_name.some /\ \E i \in 1..Len(it.chunks) : ~it.chunks[i].ok

\* next_field() reports the end of the stream.
EndOfStream ==
    [kind |-> "end", name |-> None, file_name |-> None, content_type |-> None,
     chunks |-> <<>>, text |-> Err]

Lines ==
    {l \in SeqsUpTo(LineBytes, MaxLine) : \A i \in 1..(Len(l) - 1) : l[i] # CR}

NullBody == [null |-> TRUE, bytes |-> <<>>, stream |-> <<>>]

AllBodies == {NullBody} \cup {[null |-> FALSE, bytes |-> l, stream |-> <<>>] : l \in Lines}

\* The first line is "--" followed by a token and '\r': multer finds its
\* delimiter and yields the parts.  Otherwise it finds none: the stream is
\* empty or fails.
WellFramed(l) == Len(l) >= 4 /\ l[1] = 45 /\ l[2] = 45 /\ l[Len(l)] = CR

RECURSIVE ChunksIn(_)
ChunksIn(stream) ==
    IF stream = <<>> THEN 0
    ELSE Len(Head(stream).chunks) + ChunksIn(Tail(stream))

\* What next_field() may return next for body, with items taken from S, at
\* most n items in a body and at most MaxChunks chunks in all its parts.
Yields(body, S, n) ==
    {EndOfStream}
    \cup (IF Len(body.stream) >= n THEN {}
         ELSE IF WellFramed(body.bytes)
              THEN {it \in S :
                      ChunksIn(body.stream) + Len(it.chunks) <= MaxChunks}
              ELSE {ErrItem})

----------------------------------------------------------------------------
(* The heap: allocations whose ownership left Rust (into_raw, forget)      *)
(*                                                                         *)
(* heap maps each live address to [kind, size, val]: size is the size the  *)
(* allocator was asked for (elements), val the contents.  The allocator    *)
(* hands out the lowest free address, so freed addresses are reused.       *)

\* Pointer of an empty Vec or boxed slice: non-null, not an allocation.
dangling == 0 - 1

FreshAddr(h) ==
    CHOOSE a \in 1..(Cardinality(DOMAIN h) + 1) :
        a \notin DOMAIN h /\ \A b \in 1..(a - 1) : b \in DOMAIN h

\* An allocation in progress: the heap and the addresses allocated so far.
\* Each operator below returns such a record extended with ptr.
Alloc(m, kind, size, val) ==
    LET a == FreshAddr(m.heap)
    IN  [heap |-> m.heap @@ (a :> [kind |-> kind, size |-> size, val |-> val]),
         made |-> m.made \cup {a},
         ptr |-> a]

\* CString::new(s).unwrap().into_raw(): the bytes and a terminating NUL.
\* Bodies are C strings, so s holds no NUL and unwrap does not fail.
CString_into_raw(m, s) == Alloc(m, "CString", Len(s) + 1, Append(s, NUL))

\* extend_from_slice that puts the new chunk in front of the buffer.
extend_from_slice_prepends(vec, chunk) ==
    LET need == Len(vec.buf) + Len(chunk)
    IN  [buf |-> chunk \o vec.buf,
         cap |-> IF need <= vec.cap THEN vec.cap
                 ELSE Max(Max(2 * vec.cap, need), 8)]

\* Vec<u8>::extend_from_slice: amortized growth of the capacity
\* (at least double, at least what is required, at least 8 bytes).
extend_from_slice(vec, chunk) ==
    LET need == Len(vec.buf) + Len(chunk)
    IN  [buf |-> vec.buf \o chunk,
         cap |-> IF need <= vec.cap THEN vec.cap
                 ELSE Max(Max(2 * vec.cap, need), 8)]

\* while let Some(chunk) = field.chunk().await.unwrap() { content.extend... }
RECURSIVE read_chunks(_, _)
read_chunks(vec, chunks) ==
    IF chunks = <<>> THEN vec
    ELSE read_chunks(extend_from_slice(vec, Head(chunks).v), Tail(chunks))

\* The buffer of content, which as_mut_ptr() exposes and mem::forget keeps
\* allocated with the capacity it grew to; an empty Vec owns no buffer.
forget_content(m, vec) ==
    IF vec.cap = 0 THEN [heap |-> m.heap, made |-> m.made, ptr |-> dangling]
    ELSE Alloc(m, "Vec<u8>", vec.cap, vec.buf)

\* into_boxed_slice(), as_ptr(), mem::forget: the array shrunk to its length.
forget_boxed_slice(m, elems) ==
    IF elems = <<>> THEN [heap |-> m.heap, made |-> m.made, ptr |-> dangling]
    ELSE Alloc(m, "Box<[T]>", Len(elems), elems)

\* Box::into_raw(Box::new(form_data))
Box_into_raw(m, form_data) == Alloc(m, "Box<FormData>", 1, form_data)

default_form_data ==
    [fields |-> NULL, field_count |-> 0, files |-> NULL, file_count |-> 0]

----------------------------------------------------------------------------
(* rt_parse_multipart_form_data: boundary extraction and one loop turn     *)

\* body.iter().position(|&b| b == b'\r'): 0-based index, or -1 for None.
position_cr(bytes) ==
    IF \E i \in 1..Len(bytes) : bytes[i] = CR
    THEN (CHOOSE i \in 1..Len(bytes) :
              bytes[i] = CR /\ \A j \in 1..(i - 1) : bytes[j] # CR) - 1
    ELSE 0 - 1

\* std::str::from_utf8 on the bytes the model uses.
from_utf8_ok(bytes) == \A i \in 1..Len(bytes) : bytes[i] < 128

\* Lines 113-125.  "none": no '\r'; "panic": the slice body[2..end] has
\* end < 2; "empty": empty or undecodable token; else the boundary.
extract_boundary(bytes) ==
    LET pos == position_cr(bytes)
        boundary_index == pos + 2
        end == boundary_index - 2
    IN  IF pos < 0 THEN [kind |-> "none", boundary |-> <<>>]
        ELSE IF end < 2 \/ end > Len(bytes)
             THEN [kind |-> "panic", boundary |-> <<>>]
        ELSE LET slice == SubSeq(bytes, 3, end)
                 boundary == IF from_utf8_ok(slice) THEN slice ELSE <<>>
             IN  IF boundary = <<>> THEN [kind |-> "empty", boundary |-> <<>>]
                 ELSE [kind |-> "found", boundary |-> boundary]

\* Lines 152-182: a part that declares a filename.
push_file(l, h, part) ==
    LET mime == IF Field_content_type(part).some
                THEN Field_content_type(part).v
                ELSE Mime_from_str(default_content_type).v
        content_type == Mime_to_string(mime)
        content == read_chunks([buf |-> <<>>, cap |-> 0], part.chunks)
        m0 == [heap |-> h, made |-> l.made]
        m1 == forget_content(m0, content)
        m2 == CString_into_raw(m1, content_type)
        m3 == CString_into_raw(m2, part.name.v)
        m4 == CString_into_raw(m3, part.file_name.v)
        file == [filename |-> m4.ptr, content_type |-> m2.ptr,
                 content |-> m1.ptr, content_length |-> Len(content.buf),
                 field_name |-> m3.ptr]
    IN  [heap |-> m4.heap,
         loc |-> [l EXCEPT !.files = Append(@, file), !.made = m4.made]]

\* push_field that drops a part whose value cannot be decoded.
push_field_skips_undecodable(l, h, part) ==
    LET m0 == [heap |-> h, made |-> l.made]
        m1 == CString_into_raw(m0, part.name.v)
        m2 == CString_into_raw(m1, part.text.v)
        field == [name |-> m1.ptr, value |-> m2.ptr]
    IN  IF ~part.text.ok THEN [heap |-> h, loc |-> l]
        ELSE [heap |-> m2.heap,
              loc |-> [l EXCEPT !.fields = Append(@, field),
                                !.made = m2.made]]

\* push_field that puts the new field in front of the earlier ones.
push_field_prepends(l, h, part) ==
    LET value == IF part.text.ok THEN part.text.v ELSE <<>>
        m0 == [heap |-> h, made |-> l.made]
        m1 == CString_into_raw(m0, part.name.v)
        m2 == CString_into_raw(m1, value)
        field == [name |-> m1.ptr, value |-> m2.ptr]
    IN  [heap |-> m2.heap,
         loc |-> [l EXCEPT !.fields = <<field>> \o @, !.made = m2.made]]

\* Lines 183-194: a part without a filename.
push_field(l, h, part) ==
    LET value == IF part.text.ok THEN part.text.v ELSE <<>>
        m0 == [heap |-> h, made |-> l.made]
        m1 == CString_into_raw(m0, part.name.v)
        m2 == CString_into_raw(m1, value)
        field == [name |-> m1.ptr, value |-> m2.ptr]
    IN  [heap |-> m2.heap,
         loc |-> [l EXCEPT !.fields = Append(@, field), !.made = m2.made]]

\* consume_part that takes a declared content type for the sign of a file.
consume_part_by_content_type(l, h, part) ==
    LET is_file == part.content_type.some
    IN  IF is_file THEN push_file(l, h, part) ELSE push_field(l, h, part)

\* Lines 138-195: one turn of the while loop on a part that does not panic.
consume_part(l, h, part) ==
    LET is_file == part.file_name.some
    IN  IF is_file THEN push_file(l, h, part) ELSE push_field(l, h, part)

\* build_form_data that stores the number of files in field_count.
build_form_data_miscounts(l, h) ==
    LET m0 == [heap |-> h, made |-> l.made]
        m1 == forget_boxed_slice(m0, l.fields)
        m2 == forget_boxed_slice(m1, l.files)
        form_data == [fields |-> m1.ptr, field_count |-> Len(l.files),
                      files |-> m2.ptr, file_count |-> Len(l.files)]
    IN  Box_into_raw(m2, form_data)

\* Lines 197-212: the arrays and the record.
build_form_data(l, h) ==
    LET m0 == [heap |-> h, made |-> l.made]
        m1 == forget_boxed_slice(m0, l.fields)
        m2 == forget_boxed_slice(m1, l.files)
        form_data == [fields |-> m1.ptr, field_count |-> Len(l.fields),
                      files |-> m2.ptr, file_count |-> Len(l.files)]
    IN  Box_into_raw(m2, form_data)

----------------------------------------------------------------------------
(* free_multipart_form_data: the deallocations it performs, in order       *)

\* strlen: the bytes before the first NUL.
strlen(bytes) ==
    (CHOOSE i \in 1..Len(bytes) :
         bytes[i] = NUL /\ \A j \in 1..(i - 1) : bytes[j] # NUL) - 1

\* drop(CString::from_raw(ptr)): the length is recomputed with strlen.
CString_from_raw(h, ptr) ==
    <<[ptr |-> ptr, size |-> strlen(h[ptr].val) + 1, as |-> "CString"]>>

\* drop(Vec::from_raw_parts(ptr, len, cap)): a Vec of capacity 0 owns
\* nothing and deallocates nothing.
Vec_from_raw_parts(ptr, len, cap) ==
    IF cap = 0 THEN <<>> ELSE <<[ptr |-> ptr, size |-> cap, as |-> "Vec"]>>

\* Lines 234-240
RECURSIVE free_fields(_, _, _, _)
free_fields(h, fields, i, field_count) ==
    IF i >= field_count THEN <<>>
    ELSE LET field == h[fields].val[i + 1]
         IN  CString_from_raw(h, field.name)
             \o CString_from_raw(h, field.value)
             \o free_fields(h, fields, i + 1, field_count)

\* free_files without the release of field_name.
RECURSIVE free_files_keeps_field_name(_, _, _, _)
free_files_keeps_field_name(h, files, i, file_count) ==
    IF i >= file_count THEN <<>>
    ELSE LET file == h[files].val[i + 1]
         IN  CString_from_raw(h, file.filename)
             \o CString_from_raw(h, file.content_type)
             \o Vec_from_raw_parts(file.content, file.content_length,
                                   file.content_length)
             \o free_files_keeps_field_name(h, files, i + 1, file_count)

\* Lines 250-258
RECURSIVE free_files(_, _, _, _)
free_files(h, files, i, file_count) ==
    IF i >= file_count THEN <<>>
    ELSE LET file == h[files].val[i + 1]
         IN  CString_from_raw(h, file.filename)
             \o CString_from_raw(h, file.content_type)
             \o CString_from_raw(h, file.field_name)
             \o Vec_from_raw_parts(file.content, file.content_length,
                                   file.content_length)
             \o free_files(h, files, i + 1, file_count)

\* free_form_data that releases the two arrays before it walks their
\* elements.
free_form_data_arrays_first(h, form_data) ==
    LET data == h[form_data].val
    IN  (IF data.fields # NULL
         THEN Vec_from_raw_parts(data.fields, data.field_count,
                                 data.field_count)
         ELSE <<>>)
        \o (IF data.files # NULL
            THEN Vec_from_raw_parts(data.files, data.file_count,
                                    data.file_count)
            ELSE <<>>)
        \o free_fields(h, data.fields, 0, data.field_count)
        \o free_files(h, data.files, 0, data.file_count)
        \o <<[ptr |-> form_data, size |-> 1, as |-> "Box"]>>

\* Lines 231-266: data is the Box taken back from the raw pointer; it is
\* dropped when the function returns, after everything else.
free_form_data(h, form_data) ==
    LET data == h[form_data].val
    IN  free_fields(h, data.fields, 0, data.field_count)
        \o (IF data.fields # NULL
            THEN Vec_from_raw_parts(data.fields, data.field_count,
                                    data.field_count)
            ELSE <<>>)
        \o free_files(h, data.files, 0, data.file_count)
        \o (IF data.files # NULL
            THEN Vec_from_raw_parts(data.files, data.file_count,
                                    data.file_count)
            ELSE <<>>)
        \o <<[ptr |-> form_data, size |-> 1, as |-> "Box"]>>

\* The heap after the allocator has taken the blocks back.  The crate sets
\* no global allocator, so dealloc is the system free, which takes a block
\* back whatever size it is told; the size stays in the list of operations.
dealloc_all(h, ops) ==
    LET gone == {ops[i].ptr : i \in 1..Len(ops)}
    IN  [a \in DOMAIN h \ gone |-> h[a]]

----------------------------------------------------------------------------
(* What a C caller reads through a FormData pointer                        *)

c_str(h, ptr) == SubSeq(h[ptr].val, 1, strlen(h[ptr].val))

read_bytes(h, ptr, len) == IF len = 0 THEN <<>> ELSE SubSeq(h[ptr].val, 1, len)

NoView == [fields |-> <<>>, files |-> <<>>]

View(h, form_data) ==
    LET data == h[form_data].val
    IN  [fields |->
            [i \in 1..data.field_count |->
                LET f == h[data.fields].val[i]
                IN  [name |-> c_str(h, f.name), value |-> c_str(h, f.value)]],
         files |->
            [i \in 1..data.file_count |->
                LET f == h[data.files].val[i]
                IN  [field_name |-> c_str(h, f.field_name),
                     filename |-> c_str(h, f.filename),
                     content_type |-> c_str(h, f.content_type),
                     content |-> read_bytes(h, f.content, f.content_length),
                     content_length |-> f.content_length]]]

----------------------------------------------------------------------------
(* State machine                                                           *)

NoLoc == [fields |-> <<>>, files |-> <<>>, made |-> {}]

NoCall ==
    [op |-> "none", t |-> NoThread, body |-> NullBody, host |-> "ok",
     out |-> "none", ptr |-> NULL, view |-> NoView, released |-> 0]

Init ==
    /\ pc = [t \in Threads |-> "idle"]
    /\ arg = [t \in Threads |-> NullBody]
    /\ loc = [t \in Threads |-> NoLoc]
    /\ lazy = FALSE
    /\ runtime = FALSE
    /\ created = 0
    /\ holder = NoThread
    /\ poisoned = FALSE
    /\ process = "alive"
    /\ heap = <<>>
    /\ handles = {}
    /\ allocs = <<>>
    /\ last = NoCall

InParse(t) == pc[t] \in {"parse:rt", "parse:block_on", "parse:next_field"}

\* Panic that leaves the Mutex as it was: the guard is released without
\* poisoning.
Panic_without_poison(t, op, hoststate, stream) ==
    /\ pc' = [pc EXCEPT ![t] = "idle"]
    /\ arg' = [arg EXCEPT ![t] = NullBody]
    /\ loc' = [loc EXCEPT ![t] = NoLoc]
    /\ holder' = IF holder = t THEN NoThread ELSE holder
    /\ poisoned' = poisoned
    /\ process' \in {"alive", "aborted"}
    /\ last' = [op |-> op, t |-> t, body |-> [arg[t] EXCEPT !.stream = stream],
                host |-> hoststate,
                out |-> "panic", ptr |-> NULL, view |-> NoView, released |-> 0]

\* A panic of thread t inside an exported function.  Unwinding drops the
\* MutexGuard t holds, which poisons the Mutex.  At the extern "C" boundary
\* the panic either aborts the process or unwinds into the caller; the
\* model keeps both outcomes.  Strings and buffers already handed to
\* into_raw / forget stay allocated.
Panic(t, op, hoststate, stream) ==
    /\ pc' = [pc EXCEPT ![t] = "idle"]
    /\ arg' = [arg EXCEPT ![t] = NullBody]
    /\ loc' = [loc EXCEPT ![t] = NoLoc]
    /\ holder' = IF holder = t THEN NoThread ELSE holder
    /\ poisoned' = (poisoned \/ holder = t)
    /\ process' \in {"alive", "aborted"}
    /\ last' = [op |-> op, t |-> t, body |-> [arg[t] EXCEPT !.stream = stream],
                host |-> hoststate,
                out |-> "panic", ptr |-> NULL, view |-> NoView, released |-> 0]

\* RuntimeManager_init run by every rt(): builds a runtime whenever the
\* manager has none.
RuntimeManager_init_on_demand ==
    IF runtime
    THEN UNCHANGED <<lazy, runtime, created>>
    ELSE /\ lazy' = TRUE
         /\ runtime' = TRUE
         /\ created' = created + 1

\* RuntimeManager::init, run by the Lazy initializer (lines 50-59, 73-77).
RuntimeManager_init ==
    IF lazy
    THEN UNCHANGED <<lazy, runtime, created>>
    ELSE /\ lazy' = TRUE
         /\ runtime' = TRUE
         /\ created' = created + 1

\* The caller enters parse_multipart_form_data(body).  T is the set of
\* threads that make calls; together they keep at most one record each.
call_parse(t, body, T) ==
    /\ process = "alive"
    /\ pc[t] = "idle"
    /\ Cardinality(handles) + Cardinality({u \in T : InParse(u)})
          < Cardinality(T)
    /\ pc' = [pc EXCEPT ![t] = "parse:rt"]
    /\ arg' = [arg EXCEPT ![t] = body]
    /\ last' = NoCall
    /\ UNCHANGED <<loc, lazy, runtime, created, holder, poisoned, process,
                   heap, handles, allocs>>

\* The caller enters shutdown_runtime().
call_shutdown(t) ==
    /\ process = "alive"
    /\ pc[t] = "idle"
    /\ pc' = [pc EXCEPT ![t] = "shutdown:rt"]
    /\ last' = NoCall
    /\ UNCHANGED <<arg, loc, lazy, runtime, created, holder, poisoned, process,
                   heap, handles, allocs>>

\* A lock that never blocks.
lock_always == TRUE

\* Mutex::lock returns only while no other guard exists (line 89).
lock_available == holder = NoThread

\* rt(): RUNTIME_MANAGER.lock().unwrap() (lines 88-90).  The first use runs
\* the Lazy initializer; lock() blocks while another thread holds the guard
\* and unwrap() panics when the Mutex is poisoned.
rt(t) ==
    /\ process = "alive"
    /\ pc[t] \in {"parse:rt", "shutdown:rt"}
    /\ lock_available
    /\ RuntimeManager_init
    /\ IF poisoned
       THEN /\ Panic(t, IF pc[t] = "parse:rt" THEN "parse" ELSE "shutdown",
                     "poisoned", <<>>)
            /\ UNCHANGED <<heap, handles, allocs>>
       ELSE /\ holder' = t
            /\ pc' = [pc EXCEPT ![t] = IF pc[t] = "parse:rt"
                                       THEN "parse:block_on"
                                       ELSE "shutdown:take"]
            /\ UNCHANGED <<arg, loc, poisoned, process, heap, handles, allocs,
                           last>>

\* Return that keeps the guard after the call has returned.
Return_keeps_guard(t, m) ==
    /\ heap' = m.heap
    /\ handles' = handles \cup {m.ptr}
    /\ allocs' = allocs @@ (m.ptr :> m.made)
    /\ holder' = t
    /\ pc' = [pc EXCEPT ![t] = "idle"]
    /\ arg' = [arg EXCEPT ![t] = NullBody]
    /\ loc' = [loc EXCEPT ![t] = NoLoc]
    /\ last' = [op |-> "parse", t |-> t, body |-> arg[t], host |-> "ok",
                out |-> "handle", ptr |-> m.ptr, view |-> View(m.heap, m.ptr),
                released |-> 0]
    /\ UNCHANGED <<lazy, runtime, created, poisoned, process>>

\* rt_parse_multipart_form_data returns: the guard is dropped and the raw
\* pointer goes to the caller.
Return(t, m) ==
    /\ heap' = m.heap
    /\ handles' = handles \cup {m.ptr}
    /\ allocs' = allocs @@ (m.ptr :> m.made)
    /\ holder' = NoThread
    /\ pc' = [pc EXCEPT ![t] = "idle"]
    /\ arg' = [arg EXCEPT ![t] = NullBody]
    /\ loc' = [loc EXCEPT ![t] = NoLoc]
    /\ last' = [op |-> "parse", t |-> t, body |-> arg[t], host |-> "ok",
                out |-> "handle", ptr |-> m.ptr, view |-> View(m.heap, m.ptr),
                released |-> 0]
    /\ UNCHANGED <<lazy, runtime, created, poisoned, process>>

\* Lines 216-221 and 98-134: runtime() and the start of block_on, up to the
\* first next_field().
parse_block_on(t) ==
    /\ process = "alive"
    /\ pc[t] = "parse:block_on"
    /\ IF ~runtime
       THEN /\ Panic(t, "parse", "no_runtime", <<>>)
            /\ UNCHANGED <<lazy, runtime, created, heap, handles, allocs>>
       ELSE LET b == extract_boundary(arg[t].bytes)
                m0 == [heap |-> heap, made |-> {}]
            IN  IF arg[t].null \/ b.kind \in {"none", "empty"}
                THEN Return(t, Box_into_raw(m0, default_form_data))
                ELSE IF b.kind = "panic"
                THEN /\ Panic(t, "parse", "ok", <<>>)
                     /\ UNCHANGED <<lazy, runtime, created, heap, handles,
                                    allocs>>
                ELSE /\ pc' = [pc EXCEPT ![t] = "parse:next_field"]
                     /\ UNCHANGED <<arg, loc, lazy, runtime, created, holder,
                                    poisoned, process, heap, handles, allocs,
                                    last>>

\* Lines 138-212: one turn of the while loop on what next_field() returns,
\* or the return once it reports the end of the stream.
parse_next_field(t, next) ==
    /\ process = "alive"
    /\ pc[t] = "parse:next_field"
    /\ IF next.kind = "end"
       THEN Return(t, build_form_data(loc[t], heap))
       ELSE IF Fatal(next)
       THEN /\ Panic(t, "parse", "ok", Append(arg[t].stream, next))
            /\ UNCHANGED <<lazy, runtime, created, heap, handles, allocs>>
       ELSE LET r == consume_part(loc[t], heap, next)
            IN  /\ heap' = r.heap
                /\ loc' = [loc EXCEPT ![t] = r.loc]
                /\ arg' = [arg EXCEPT ![t].stream = Append(@, next)]
                /\ UNCHANGED <<pc, lazy, runtime, created, holder, poisoned,
                               process, handles, allocs, last>>

\* RuntimeManager_shutdown that also takes back every record parse handed
\* out.
RuntimeManager_shutdown_collects(t) ==
    /\ process = "alive"
    /\ pc[t] = "shutdown:take"
    /\ runtime' = FALSE
    /\ holder' = NoThread
    /\ pc' = [pc EXCEPT ![t] = "idle"]
    /\ heap' = [a \in DOMAIN heap \ UNION {allocs[p] : p \in handles}
                    |-> heap[a]]
    /\ handles' = {}
    /\ allocs' = <<>>
    /\ last' = [op |-> "shutdown", t |-> t, body |-> NullBody,
                host |-> IF runtime THEN "ok" ELSE "no_runtime",
                out |-> "done", ptr |-> NULL, view |-> NoView, released |-> 0]
    /\ UNCHANGED <<arg, loc, lazy, created, poisoned, process>>

\* RuntimeManager::shutdown under the guard (lines 65-69, 271).
RuntimeManager_shutdown(t) ==
    /\ process = "alive"
    /\ pc[t] = "shutdown:take"
    /\ runtime' = FALSE
    /\ holder' = NoThread
    /\ pc' = [pc EXCEPT ![t] = "idle"]
    /\ last' = [op |-> "shutdown", t |-> t, body |-> NullBody,
                host |-> IF runtime THEN "ok" ELSE "no_runtime",
                out |-> "done", ptr |-> NULL, view |-> NoView, released |-> 0]
    /\ UNCHANGED <<arg, loc, lazy, created, poisoned, process, heap, handles,
                   allocs>>

\* free_null without the null check: Box::from_raw dereferences NULL.
free_null_dereferences(t) ==
    /\ process' = "aborted"
    /\ last' = [NoCall EXCEPT !.op = "free", !.t = t, !.out = "done"]
    /\ UNCHANGED <<pc, arg, loc, lazy, runtime, created, holder, poisoned,
                   heap, handles, allocs>>

\* Lines 227-229: a null pointer makes free_multipart_form_data return at
\* once.
free_null(t) ==
    /\ last' = [NoCall EXCEPT !.op = "free", !.t = t, !.out = "done"]
    /\ UNCHANGED <<pc, arg, loc, lazy, runtime, created, holder, poisoned,
                   process, heap, handles, allocs>>

\* Lines 231-266: the record and what it points to go back to the
\* allocator.
free_record(t, form_data) ==
    LET ops == free_form_data(heap, form_data)
    IN  /\ heap' = dealloc_all(heap, ops)
        /\ handles' = handles \ {form_data}
        /\ allocs' = [h \in DOMAIN allocs \ {form_data} |-> allocs[h]]
        /\ last' = [NoCall EXCEPT !.op = "free", !.t = t, !.out = "done",
                                  !.ptr = form_data,
                                  !.released = Len(ops)]
        /\ UNCHANGED <<pc, arg, loc, lazy, runtime, created, holder,
                       poisoned, process>>

\* free_multipart_form_data(form_data), lines 226-266.  The caller passes
\* NULL or a pointer parse returned and that was not freed yet.
free_multipart_form_data(t, form_data) ==
    /\ process = "alive"
    /\ pc[t] = "idle"
    /\ form_data \in handles \cup {NULL}
    /\ IF form_data = NULL THEN free_null(t) ELSE free_record(t, form_data)

----------------------------------------------------------------------------
(* Specifications                                                          *)

\* Inputs of Spec: the body is NULL, empty, a bare '\r' or starts with
\* "---\r" and holds at most one part: a field, a file of one chunk or a
\* part without a name.
Bodies == {b \in AllBodies : b.bytes \in {<<>>, <<CR>>, <<45, 45, 45, CR>>}}

Parts ==
    {it \in Items :
        /\ it.kind = "part"
        /\ it.content_type = None
        /\ it.name.some => it.file_name.some \/ it.text = Ok(<<118>>)
        /\ it.file_name.some => it.chunks = <<Ok(<<1>>)>>}

\* Two caller threads, few bodies.
Next ==
    \/ \E t \in Threads, body \in Bodies : call_parse(t, body, Threads)
    \/ \E t \in Threads : call_shutdown(t)
    \/ \E t \in Threads : rt(t)
    \/ \E t \in Threads : parse_block_on(t)
    \/ \E t \in Threads : \E next \in Yields(arg[t], Parts, 1) :
          parse_next_field(t, next)
    \/ \E t \in Threads : RuntimeManager_shutdown(t)
    \/ \E t \in Threads, p \in handles \cup {NULL} :
          free_multipart_form_data(t, p)

Spec == Init /\ [][Next]_vars

\* One caller thread, every body and every part, one record outstanding
\* at a time.
NextOne ==
    \/ \E body \in AllBodies : call_parse(1, body, {1})
    \/ call_shutdown(1)
    \/ rt(1)
    \/ parse_block_on(1)
    \/ \E next \in Yields(arg[1], Items, MaxParts) : parse_next_field(1, next)
    \/ RuntimeManager_shutdown(1)
    \/ \E p \in handles \cup {NULL} : free_multipart_form_data(1, p)

SpecOne == Init /\ [][NextOne]_vars

\* Inputs of SpecFair: a body that makes the parse fail ('\r' alone) and a
\* body that starts with "---\r" and holds at most one part, a field or a
\* part without a name.
FairBodies == {b \in Bodies : b.bytes \in {<<CR>>, <<45, 45, 45, CR>>}}

FairParts == {it \in Parts : ~it.file_name.some}

\* Scheduling of the calls in progress.  A thread inside an exported
\* function keeps running: block_on drives the parse on the calling thread
\* and shutdown_timeout is bounded (weak fairness of its steps).  A thread
\* blocked in Mutex::lock is not passed over forever while the lock keeps
\* being released (strong fairness of rt).  Callers are not obliged to
\* make any call.
Fairness ==
    \A t \in Threads :
        /\ SF_vars(rt(t))
        /\ WF_vars(parse_block_on(t))
        /\ WF_vars(\E next \in Yields(arg[t], FairParts, 1) :
                       parse_next_field(t, next))
        /\ WF_vars(RuntimeManager_shutdown(t))

\* Two caller threads under that scheduling; a caller starts a parse only
\* while no record is outstanding.
NextFair ==
    \/ \E t \in Threads, body \in FairBodies : call_parse(t, body, {t})
    \/ \E t \in Threads : call_shutdown(t)
    \/ \E t \in Threads : rt(t)
    \/ \E t \in Threads : parse_block_on(t)
    \/ \E t \in Threads : \E next \in Yields(arg[t], FairParts, 1) :
          parse_next_field(t, next)
    \/ \E t \in Threads : RuntimeManager_shutdown(t)
    \/ \E t \in Threads, p \in handles \cup {NULL} :
          free_multipart_form_data(t, p)

SpecFair == Init /\ [][NextFair]_vars /\ Fairness

----------------------------------------------------------------------------
(* Properties                                                              *)

FreeStep(p) == \E t \in Threads : free_multipart_form_data(t, p)

\* C1: one free_multipart_form_data call on a handle parse returned
\* releases exactly the allocations made while building it: each of them
\* once, all of them live until then, none left live, and nothing else.
FreeReleasesWhatParseAllocated ==
    [][\A p \in handles :
          FreeStep(p) =>
              LET ops == free_form_data(heap, p)
                  ptrs == {ops[i].ptr : i \in 1..Len(ops)}
              IN  /\ p \in allocs[p]
                  /\ allocs[p] \subseteq DOMAIN heap
                  /\ ptrs = allocs[p]
                  /\ Len(ops) = Cardinality(allocs[p])
                  /\ DOMAIN heap' = DOMAIN heap \ allocs[p]]_vars

\* A record with a field and a file that has content was freed: the record,
\* two arrays, two field strings, three file strings and one buffer.
FreedFieldAndFile ==
    /\ last.op = "free"
    /\ last.released = 9

\* C2: in every reachable state a parse_multipart_form_data call returns a
\* valid handle, also after shutdown_runtime.  Stated for the calls that
\* cannot fail because of their body (NULL) and that find the process as
\* parse and shutdown calls left it, no earlier call having failed.
ParseAlwaysReturnsHandle ==
    (last.op = "parse" /\ last.body.null /\ last.host # "poisoned")
        => (last.out = "handle" /\ last.ptr \in handles)

\* The bodies C3 lists: no body, no '\r', or nothing between the first two
\* bytes and the first '\r' (which includes a '\r' at offset 0 or 1).
NoDiscoverableBoundary(body) ==
    \/ body.null
    \/ position_cr(body.bytes) < 0
    \/ SubSeq(body.bytes, 3, position_cr(body.bytes)) = <<>>

\* C3: a null body, an empty body and a body with no discoverable boundary
\* yield a FormData with zero fields and zero files, never a failure.
NoBoundaryYieldsEmptyFormData ==
    (last.op = "parse" /\ last.host = "ok" /\ NoDiscoverableBoundary(last.body))
        => (last.out = "handle" /\ last.view = NoView)

DeclaresFile(it) == it.file_name.some
DeclaresNoFile(it) == ~it.file_name.some
NamesOf(parts) == [i \in 1..Len(parts) |-> parts[i].name.v]

\* C4: when parse returns, field_count + file_count is the number of parts
\* of the body, the parts that declared a filename are the entries of the
\* files array and the others the entries of the fields array.
EveryPartEmittedOnce ==
    (last.op = "parse" /\ last.out = "handle")
        => LET parts == last.body.stream
               data == heap[last.ptr].val
           IN  /\ data.field_count + data.file_count = Len(parts)
               /\ [i \in 1..data.file_count |-> last.view.files[i].field_name]
                      = NamesOf(SelectSeq(parts, DeclaresFile))
               /\ [i \in 1..data.field_count |-> last.view.fields[i].name]
                      = NamesOf(SelectSeq(parts, DeclaresNoFile))

\* parse returned a record for a body that holds a field and a file.
ReturnedFieldAndFile ==
    /\ last.op = "parse"
    /\ last.out = "handle"
    /\ Len(last.view.fields) = 1
    /\ Len(last.view.files) = 1

\* What the body of a call asks for, part by part.
ExpectedField(part) ==
    [name |-> part.name.v,
     value |-> IF part.text.ok THEN part.text.v ELSE <<>>]

ExpectedFile(part) ==
    LET content == Concat([i \in 1..Len(part.chunks) |-> part.chunks[i].v])
    IN  [field_name |-> part.name.v,
         filename |-> part.file_name.v,
         content_type |-> IF Field_content_type(part).some
                          THEN Field_content_type(part).v
                          ELSE default_content_type,
         content |-> content,
         content_length |-> Len(content)]

ExpectedView(stream) ==
    LET fieldParts == SelectSeq(stream, DeclaresNoFile)
        fileParts == SelectSeq(stream, DeclaresFile)
    IN  [fields |-> [i \in 1..Len(fieldParts) |-> ExpectedField(fieldParts[i])],
         files |-> [i \in 1..Len(fileParts) |-> ExpectedFile(fileParts[i])]]

\* The outcome of parsing body as the first call of a fresh process.
Solo(body) ==
    LET b == extract_boundary(body.bytes)
    IN  IF body.null \/ b.kind \in {"none", "empty"}
        THEN [out |-> "handle", view |-> NoView]
        ELSE IF b.kind = "panic"
                \/ \E i \in 1..Len(body.stream) : Fatal(body.stream[i])
        THEN [out |-> "panic", view |-> NoView]
        ELSE [out |-> "handle", view |-> ExpectedView(body.stream)]

\* C5: across sequential parse/free cycles the result of a parse depends
\* only on its body: it is the result the same body has in a fresh process,
\* whatever parse and free calls came before (runtime: no shutdown_runtime
\* call came before).
ParseResultDependsOnBodyOnly ==
    (last.op = "parse" /\ runtime)
        => (last.out = Solo(last.body).out /\ last.view = Solo(last.body).view)

\* C6: free_multipart_form_data(NULL) releases nothing, leaves every
\* outstanding handle, the heap, the execution host and the callers as they
\* are, and does not fail.
FreeNullIsNoOp ==
    [][(\E t \in Threads : free_multipart_form_data(t, NULL))
          => /\ UNCHANGED <<heap, handles, allocs, lazy, runtime, created,
                            holder, poisoned, process, pc, arg, loc>>
             /\ last'.released = 0
             /\ last'.out = "done"]_vars

\* free(NULL) was called while a record was outstanding and another thread
\* was inside parse.
FreedNullWhileBusy ==
    /\ last.op = "free"
    /\ last.ptr = NULL
    /\ handles # {}
    /\ holder # NoThread

\* C7: shutdown_runtime called when no execution context exists (before any
\* parse, or after an earlier shutdown) is a no-op: none of its steps
\* creates a context or changes the host, the heap or the process.
ShutdownWithoutContextIsNoOp ==
    [][\A t \in Threads :
          (/\ pc[t] \in {"shutdown:rt", "shutdown:take"}
           /\ ~runtime
           /\ rt(t) \/ RuntimeManager_shutdown(t))
          => UNCHANGED <<lazy, runtime, created, poisoned, process, heap,
                         handles>>]_vars

Inside == {t \in Threads :
              pc[t] \in {"parse:block_on", "parse:next_field", "shutdown:take"}}

\* C8: at most one thread is inside the execution host, that thread holds
\* the guard, and the runtime exists for as long as a parse runs on it.
OneThreadInsideHost ==
    /\ Cardinality(Inside) <= 1
    /\ \A t \in Inside : holder = t
    /\ \A t \in Threads : pc[t] = "parse:next_field" => runtime

\* One thread is parsing while the other waits for the lock.
ParsingWhileOtherWaits ==
    \E t, u \in Threads :
        /\ pc[t] = "parse:next_field"
        /\ pc[u] \in {"parse:rt", "shutdown:rt"}

Nameless(it) == it.kind = "part" /\ ~it.name.some

\* C9: a part without a name makes the parse fail; no call whose body holds
\* such a part returns a handle, and no parse goes on past such a part.
NamelessPartFailsParse ==
    /\ (last.op = "parse" /\ \E i \in 1..Len(last.body.stream) :
                                  Nameless(last.body.stream[i]))
           => (last.out = "panic" /\ last.ptr = NULL)
    /\ \A t \in Threads : \A i \in 1..Len(arg[t].stream) :
           ~Nameless(arg[t].stream[i])

\* A parse failed at a nameless part that came after another part.
FailedAtNamelessSecondPart ==
    /\ last.op = "parse"
    /\ last.out = "panic"
    /\ Len(last.body.stream) = 2
    /\ Nameless(last.body.stream[2])

DecodeFailure(it) ==
    it.kind = "part" /\ it.name.some /\ ~it.file_name.some /\ ~it.text.ok

\* C10: a non-file part whose value cannot be decoded is emitted under its
\* name with an empty value, and the parse goes on: it does not fail at
\* that part, and the record it returns holds every part of the body.
UndecodableValueBecomesEmpty ==
    (last.op = "parse" /\ last.host = "ok"
        /\ \E i \in 1..Len(last.body.stream) :
               DecodeFailure(last.body.stream[i]))
        => LET parts == last.body.stream
               fieldParts == SelectSeq(parts, DeclaresNoFile)
           IN  IF last.out = "panic"
               THEN ~DecodeFailure(parts[Len(parts)])
               ELSE /\ Len(last.view.fields) + Len(last.view.files) = Len(parts)
                    /\ last.view.fields
                          = [i \in 1..Len(fieldParts) |->
                                ExpectedField(fieldParts[i])]

\* parse returned a record for a body whose first part has an undecodable
\* value and is followed by another part.
ReturnedAfterDecodeFailure ==
    /\ last.op = "parse"
    /\ last.out = "handle"
    /\ Len(last.body.stream) = 2
    /\ DecodeFailure(last.body.stream[1])
    /\ last.view.fields[1].value = <<>>

\* The parts of a stream that declare a filename, in wire order.
FilePartsOf(stream) == SelectSeq(stream, DeclaresFile)

RECURSIVE SumOfLengths(_)
SumOfLengths(chunks) ==
    IF chunks = <<>> THEN 0
    ELSE Len(Head(chunks).v) + SumOfLengths(Tail(chunks))

\* The bytes of chunks from the k-th on, in arrival order.
RECURSIVE BytesFrom(_, _)
BytesFrom(chunks, k) ==
    IF k > Len(chunks) THEN <<>>
    ELSE chunks[k].v \o BytesFrom(chunks, k + 1)

\* C11: the content recorded for a file part is the concatenation, in
\* arrival order, of the chunks delivered for that part and of no other
\* part, and content_length is the sum of their lengths (0 when the part
\* delivers no chunk).
ContentIsChunksInOrder ==
    (last.op = "parse" /\ last.out = "handle")
        => LET fileParts == FilePartsOf(last.body.stream)
           IN  /\ Len(last.view.files) = Len(fileParts)
               /\ \A i \in 1..Len(fileParts) :
                     /\ last.view.files[i].content
                           = BytesFrom(fileParts[i].chunks, 1)
                     /\ last.view.files[i].content_length
                           = SumOfLengths(fileParts[i].chunks)
                     /\ heap[last.ptr].val.file_count = Len(fileParts)

\* parse returned a record with a file whose content came in two different
\* chunks, one of them holding a zero byte.
ReturnedFileOfTwoChunks ==
    /\ last.op = "parse"
    /\ last.out = "handle"
    /\ \E i \in 1..Len(last.view.files) :
          /\ last.view.files[i].content_length = 3
          /\ last.view.files[i].content = <<0, 3, 1>>

\* The positions in stream of the parts that satisfy P, in increasing order.
RECURSIVE PositionsFrom(_, _, _)
PositionsFrom(stream, P(_), i) ==
    IF i > Len(stream) THEN <<>>
    ELSE (IF P(stream[i]) THEN <<i>> ELSE <<>>)
         \o PositionsFrom(stream, P, i + 1)

\* C12: within the fields array and within the files array, entries are in
\* the order of their parts in the body: the k-th entry of an array is the
\* k-th part of its kind, so of two parts of one kind the one earlier in
\* the body has the smaller index.
ArraysFollowBodyOrder ==
    (last.op = "parse" /\ last.out = "handle")
        => LET stream == last.body.stream
               fieldAt == PositionsFrom(stream, DeclaresNoFile, 1)
               fileAt == PositionsFrom(stream, DeclaresFile, 1)
           IN  /\ Len(last.view.fields) = Len(fieldAt)
               /\ Len(last.view.files) = Len(fileAt)
               /\ \A j, k \in 1..Len(fieldAt) : j < k => fieldAt[j] < fieldAt[k]
               /\ \A j, k \in 1..Len(fileAt) : j < k => fileAt[j] < fileAt[k]
               /\ \A k \in 1..Len(fieldAt) :
                     last.view.fields[k].value
                        = (IF stream[fieldAt[k]].text.ok
                           THEN stream[fieldAt[k]].text.v ELSE <<>>)
               /\ \A k \in 1..Len(fileAt) :
                     last.view.files[k].content
                        = BytesFrom(stream[fileAt[k]].chunks, 1)

\* parse returned a record for a body with two fields of different values.
ReturnedTwoDifferentFields ==
    /\ last.op = "parse"
    /\ last.out = "handle"
    /\ Len(last.view.fields) = 2
    /\ last.view.fields[1].value # last.view.fields[2].value

\* C13: every file entry's content_type is the content type its part
\* declares, unchanged, when the part declares one, and is exactly
\* application/octet-stream when the part declares none.
ContentTypeDeclaredOrDefault ==
    (last.op = "parse" /\ last.out = "handle")
        => LET fileParts == FilePartsOf(last.body.stream)
           IN  \A i \in 1..Len(fileParts) :
                  last.view.files[i].content_type
                     = (IF fileParts[i].content_type.some
                        THEN fileParts[i].content_type.v
                        ELSE default_content_type)

\* The number of live elements behind an array pointer of a record: none
\* behind a null pointer or the marker of an empty array.
LiveElements(h, array) ==
    IF array \in {NULL, dangling} THEN 0
    ELSE IF array \in DOMAIN h /\ h[array].kind = "Box<[T]>"
         THEN Len(h[array].val) ELSE 0 - 1

CountMatches(h, array, count) ==
    /\ count = LiveElements(h, array)
    /\ count = 0 <=> array \in {NULL, dangling}
    /\ array = NULL => count = 0

\* C14: in every handle parse returned and that was not freed, field_count
\* and file_count are the numbers of live elements of the fields and files
\* arrays; a count of 0 comes with a null pointer or with the non-null
\* marker of an empty array, and a null pointer never with another count.
CountsMatchArrays ==
    \A p \in handles :
        /\ p \in DOMAIN heap
        /\ CountMatches(heap, heap[p].val.fields, heap[p].val.field_count)
        /\ CountMatches(heap, heap[p].val.files, heap[p].val.file_count)

\* An outstanding record holds two fields and no file: a live array of two
\* elements and the marker of an empty one.
HoldsTwoFieldsAndNoFile ==
    \E p \in handles :
        /\ heap[p].val.field_count = 2
        /\ heap[p].val.fields \in DOMAIN heap
        /\ heap[p].val.file_count = 0
        /\ heap[p].val.files = dangling

\* The deallocation op hands block op.ptr of heap h back as what it was
\* allocated as, with the size it was allocated with.
SameRepresentation(h, op) ==
    /\ op.ptr \in DOMAIN h
    /\ op.size = h[op.ptr].size
    /\ \/ op.as = "CString" /\ h[op.ptr].kind = "CString"
       \/ op.as = "Vec" /\ h[op.ptr].kind \in {"Vec<u8>", "Box<[T]>"}
       \/ op.as = "Box" /\ h[op.ptr].kind = "Box<FormData>"

\* C15: free_multipart_form_data releases every buffer in the
\* representation it was allocated in; each file's content buffer goes back
\* with the capacity it had when parse handed it over, whatever chunks grew
\* it.
FreeReleasesInSameRepresentation ==
    [][\A p \in handles :
          FreeStep(p) =>
              LET ops == free_form_data(heap, p)
              IN  \A i \in 1..Len(ops) : SameRepresentation(heap, ops[i])]_vars

\* The place of the release of ptr in ops; 0 when ops does not release it.
ReleasedAt(ops, ptr) ==
    IF \E i \in 1..Len(ops) : ops[i].ptr = ptr
    THEN CHOOSE i \in 1..Len(ops) : ops[i].ptr = ptr
    ELSE 0

\* The pointers an element of the fields or of the files array holds.
PointersOf(e) ==
    IF "value" \in DOMAIN e THEN {e.name, e.value}
    ELSE {e.filename, e.content_type, e.field_name, e.content}

\* The allocations owned by the first count elements of an array (an empty
\* content buffer is no allocation).
OwnedByElements(h, array, count) ==
    IF count = 0 THEN {}
    ELSE UNION {PointersOf(h[array].val[i]) \cap DOMAIN h : i \in 1..count}

ElementsBeforeArray(h, ops, array, count) ==
    /\ \A a \in OwnedByElements(h, array, count) :
          /\ ReleasedAt(ops, a) > 0
          /\ array \in DOMAIN h => ReleasedAt(ops, a) < ReleasedAt(ops, array)
    /\ array \in DOMAIN h => ReleasedAt(ops, array) > 0

\* C16: free_multipart_form_data walks both arrays by the counts stored in
\* the record; it releases no array before every string and buffer owned by
\* its elements, and the record last, after both arrays.
FreeReleasesElementsArraysRecord ==
    [][\A p \in handles :
          FreeStep(p) =>
              LET ops == free_form_data(heap, p)
                  data == heap[p].val
              IN  /\ ElementsBeforeArray(heap, ops, data.fields,
                                         data.field_count)
                  /\ ElementsBeforeArray(heap, ops, data.files,
                                         data.file_count)
                  /\ ReleasedAt(ops, p) = Len(ops)
                  /\ Len(ops) = 1 + 2 * data.field_count
                                  + Cardinality({data.fields, data.files}
                                                    \cap DOMAIN heap)
                                  + Cardinality(OwnedByElements(
                                        heap, data.files, data.file_count))]_vars

\* A record with two files that have content was freed: the record, one
\* array, six strings and two buffers.
FreedTwoFiles ==
    /\ last.op = "free"
    /\ last.released = 10

\* C17: a handle parse returned stays allocated, with all its buffers live
\* and unchanged, until free_multipart_form_data is called on that handle:
\* no step of a later parse, of a free of another handle or of
\* shutdown_runtime releases or modifies any part of it.
HandleLivesUntilItsFree ==
    [][\A p \in handles :
          \/ FreeStep(p)
          \/ /\ p \in handles'
             /\ allocs'[p] = allocs[p]
             /\ \A a \in allocs[p] : a \in DOMAIN heap' /\ heap'[a] = heap[a]
             /\ View(heap', p) = View(heap, p)]_vars

\* After a shutdown_runtime call, the free of another handle left a record
\* outstanding and whole.
HandleOutlivedShutdownAndFree ==
    /\ last.op = "free"
    /\ last.ptr # NULL
    /\ lazy /\ ~runtime
    /\ \E p \in handles : allocs[p] \subseteq DOMAIN heap

Waiting(t) == pc[t] \in {"parse:rt", "shutdown:rt"}

ContextCreatedOnceByInitializer ==
    /\ [](created <= 1 /\ (lazy <=> created = 1) /\ (runtime => lazy))
    /\ [][created' # created
             => (~lazy /\ lazy' /\ runtime' /\ \E t \in Threads : rt(t))]_vars
    /\ [][(lazy /\ ~runtime) => ~runtime']_vars

\* A parse that came after shutdown_runtime found no context, and none
\* was created for it.
ParseAfterShutdownFoundNoContext ==
    /\ last.op = "parse"
    /\ last.host = "no_runtime"
    /\ ~runtime
    /\ created = 1

\* Thread t's parse fails fatally in this step, past rt(): at runtime(), at
\* the boundary slice, or at a part or chunk.
ParseFailsFatally(t) ==
    /\ pc[t] \in {"parse:block_on", "parse:next_field"}
    /\ parse_block_on(t) \/ \E next \in Items : parse_next_field(t, next)
    /\ last'.out = "panic"

\* A parse or shutdown call completes successfully in this step.
CompletesSuccessfully ==
    /\ last' # last
    /\ last'.op \in {"parse", "shutdown"}
    /\ last'.out \in {"handle", "done"}

====
